---- MODULE Spec2Model ----
(***************************************************************************)
(* The XTTS voice-cloning demo (app.py): the request handler predict, the  *)
(* two gr.Interface forms that call it, the built-in example rows, and the *)
(* file output.wav that every invocation writes and reads.                 *)
(*                                                                         *)
(* A Python str is a sequence of Unicode code points, and len() counts     *)
(* them; prompts are therefore sequences of code points.                   *)
(***************************************************************************)
EXTENDS Integers, Sequences, FiniteSets, TLC

(* ---------------------------- bounds ----------------------------------- *)

\* Number of predict invocations that may be in progress at once.
NumWorkers == 2

\* Directly supplied prompts have 0..MaxPromptLen characters.
MaxPromptLen == 2

(* ------------------------- program constants --------------------------- *)

\* predict: len(prompt) < 2
MinPromptLen == 2

\* predict: file_path="output.wav", audio="output.wav", and the returned path
OutputPath == "output.wav"

\* Python's None (the microphone tab's Audio input has no default value)
None == "<None>"

\* gr.Dropdown(choices=[...]) of the audio_upload form, in source order
AudioUploadChoices ==
  << "en", "es", "fr", "de", "it", "pt", "pl", "tr", "ru", "nl", "cs", "ar", "zh-cn" >>

\* gr.Dropdown(choices=[...]) of the microphone form, in source order
MicrophoneChoices ==
  << "en", "es", "fr", "de", "it", "pt", "pl", "tr", "ru", "nl", "cs", "ar", "zh-cn" >>

DefaultPrompt ==
  << 73, 116, 32, 116, 111, 111, 107, 32, 109, 101, 32, 113, 117, 105, 116, 101, 32, 97,
     32, 108, 111, 110, 103, 32, 116, 105, 109, 101, 32, 116, 111, 32, 100, 101, 118,
     101, 108, 111, 112, 32, 97, 32, 118, 111, 105, 99, 101, 44, 32, 97, 110, 100, 32,
     110, 111, 119, 32, 116, 104, 97, 116, 32, 73, 32, 104, 97, 118, 101, 32, 105, 116,
     32, 73, 39, 109, 32, 110, 111, 116, 32, 103, 111, 105, 110, 103, 32, 116, 111, 32,
     98, 101, 32, 115, 105, 108, 101, 110, 116, 46 >>

ExamplePrompt1 ==
  << 79, 110, 99, 101, 32, 119, 104, 101, 110, 32, 73, 32, 119, 97, 115, 32, 115, 105,
     120, 32, 121, 101, 97, 114, 115, 32, 111, 108, 100, 32, 73, 32, 115, 97, 119, 32,
     97, 32, 109, 97, 103, 110, 105, 102, 105, 99, 101, 110, 116, 32, 112, 105, 99, 116,
     117, 114, 101 >>

ExamplePrompt2 ==
  << 76, 111, 114, 115, 113, 117, 101, 32, 106, 39, 97, 118, 97, 105, 115, 32, 115, 105,
     120, 32, 97, 110, 115, 32, 106, 39, 97, 105, 32, 118, 117, 44, 32, 117, 110, 101,
     32, 102, 111, 105, 115, 44, 32, 117, 110, 101, 32, 109, 97, 103, 110, 105, 102,
     105, 113, 117, 101, 32, 105, 109, 97, 103, 101 >>

ExamplePrompt3 ==
  << 65, 108, 115, 32, 105, 99, 104, 32, 115, 101, 99, 104, 115, 32, 119, 97, 114, 44,
     32, 115, 97, 104, 32, 105, 99, 104, 32, 101, 105, 110, 109, 97, 108, 32, 101, 105,
     110, 32, 119, 117, 110, 100, 101, 114, 98, 97, 114, 101, 115, 32, 66, 105, 108, 100 >>

ExamplePrompt4 ==
  << 67, 117, 97, 110, 100, 111, 32, 116, 101, 110, 237, 97, 32, 115, 101, 105, 115, 32,
     97, 241, 111, 115, 44, 32, 118, 105, 32, 117, 110, 97, 32, 118, 101, 122, 32, 117,
     110, 97, 32, 105, 109, 97, 103, 101, 110, 32, 109, 97, 103, 110, 237, 102, 105, 99,
     97 >>

ExamplePrompt5 ==
  << 81, 117, 97, 110, 100, 111, 32, 101, 117, 32, 116, 105, 110, 104, 97, 32, 115, 101,
     105, 115, 32, 97, 110, 111, 115, 32, 101, 117, 32, 118, 105, 44, 32, 117, 109, 97,
     32, 118, 101, 122, 44, 32, 117, 109, 97, 32, 105, 109, 97, 103, 101, 109, 32, 109,
     97, 103, 110, 237, 102, 105, 99, 97 >>

ExamplePrompt6 ==
  << 75, 105, 101, 100, 121, 32, 109, 105, 97, 322, 101, 109, 32, 115, 122, 101, 347,
     263, 32, 108, 97, 116, 44, 32, 122, 111, 98, 97, 99, 122, 121, 322, 101, 109, 32,
     112, 101, 119, 110, 101, 103, 111, 32, 114, 97, 122, 117, 32, 119, 115, 112, 97,
     110, 105, 97, 322, 121, 32, 111, 98, 114, 97, 122, 101, 107 >>

ExamplePrompt7 ==
  << 85, 110, 32, 116, 101, 109, 112, 111, 32, 108, 111, 110, 116, 97, 110, 111, 44, 32,
     113, 117, 97, 110, 100, 111, 32, 97, 118, 101, 118, 111, 32, 115, 101, 105, 32, 97,
     110, 110, 105, 44, 32, 118, 105, 100, 105, 32, 117, 110, 32, 109, 97, 103, 110,
     105, 102, 105, 99, 111, 32, 100, 105, 115, 101, 103, 110, 111 >>

ExamplePrompt8 ==
  << 66, 105, 114, 32, 122, 97, 109, 97, 110, 108, 97, 114, 44, 32, 97, 108, 116, 305,
     32, 121, 97, 351, 305, 110, 100, 97, 121, 107, 101, 110, 44, 32, 109, 117, 104,
     116, 101, 351, 101, 109, 32, 98, 105, 114, 32, 114, 101, 115, 105, 109, 32, 103,
     246, 114, 100, 252, 109 >>

ExamplePrompt9 ==
  << 1050, 1086, 1075, 1076, 1072, 32, 1084, 1085, 1077, 32, 1073, 1099, 1083, 1086, 32,
     1096, 1077, 1089, 1090, 1100, 32, 1083, 1077, 1090, 44, 32, 1103, 32, 1091, 1074,
     1080, 1076, 1077, 1083, 32, 1086, 1076, 1085, 1072, 1078, 1076, 1099, 32, 1091,
     1076, 1080, 1074, 1080, 1090, 1077, 1083, 1100, 1085, 1091, 1102, 32, 1082, 1072,
     1088, 1090, 1080, 1085, 1082, 1091 >>

ExamplePrompt10 ==
  << 84, 111, 101, 110, 32, 105, 107, 32, 101, 101, 110, 32, 106, 97, 97, 114, 32, 111,
     102, 32, 122, 101, 115, 32, 119, 97, 115, 44, 32, 122, 97, 103, 32, 105, 107, 32,
     111, 112, 32, 101, 101, 110, 32, 107, 101, 101, 114, 32, 101, 101, 110, 32, 112,
     114, 97, 99, 104, 116, 105, 103, 101, 32, 112, 108, 97, 97, 116 >>

ExamplePrompt11 ==
  << 75, 100, 121, 382, 32, 109, 105, 32, 98, 121, 108, 111, 32, 353, 101, 115, 116, 32,
     108, 101, 116, 44, 32, 118, 105, 100, 283, 108, 32, 106, 115, 101, 109, 32, 106,
     101, 100, 110, 111, 117, 32, 110, 225, 100, 104, 101, 114, 110, 253, 32, 111, 98,
     114, 225, 122, 101, 107 >>

ExamplePrompt12 ==
  << 24403, 25105, 36824, 21482, 26377, 20845, 23681, 30340, 26102, 20505, 65292, 32,
     30475, 21040, 20102, 19968, 21103, 31934, 24425, 30340, 25554, 30011 >>

\* examples = [[prompt, language, speaker_wav, agree], ...]
examples ==
  << 
     [prompt |-> ExamplePrompt1, language |-> "en", speaker_wav |-> "examples/female.wav", agree |-> TRUE],
     [prompt |-> ExamplePrompt2, language |-> "fr", speaker_wav |-> "examples/male.wav", agree |-> TRUE],
     [prompt |-> ExamplePrompt3, language |-> "de", speaker_wav |-> "examples/female.wav", agree |-> TRUE],
     [prompt |-> ExamplePrompt4, language |-> "es", speaker_wav |-> "examples/male.wav", agree |-> TRUE],
     [prompt |-> ExamplePrompt5, language |-> "pt", speaker_wav |-> "examples/female.wav", agree |-> TRUE],
     [prompt |-> ExamplePrompt6, language |-> "pl", speaker_wav |-> "examples/male.wav", agree |-> TRUE],
     [prompt |-> ExamplePrompt7, language |-> "it", speaker_wav |-> "examples/female.wav", agree |-> TRUE],
     [prompt |-> ExamplePrompt8, language |-> "tr", speaker_wav |-> "examples/female.wav", agree |-> TRUE],
     [prompt |-> ExamplePrompt9, language |-> "ru", speaker_wav |-> "examples/female.wav", agree |-> TRUE],
     [prompt |-> ExamplePrompt10, language |-> "nl", speaker_wav |-> "examples/male.wav", agree |-> TRUE],
     [prompt |-> ExamplePrompt11, language |-> "cs", speaker_wav |-> "examples/female.wav", agree |-> TRUE],
     [prompt |-> ExamplePrompt12, language |-> "zh-cn", speaker_wav |-> "examples/female.wav", agree |-> TRUE]
  >>

\* The input widgets of audio_upload = gr.Interface(fn=predict, inputs=[...]),
\* each with its initial value.
audio_upload ==
  [prompt |-> DefaultPrompt, language |-> "en",
   speaker_wav |-> "examples/female.wav", agree |-> FALSE]

\* microphone with its Agree checkbox initially ticked
microphoneAgreed ==
  [prompt |-> DefaultPrompt, language |-> "en",
   speaker_wav |-> None, agree |-> TRUE]

\* The input widgets of microphone = gr.Interface(fn=predict, inputs=[...]);
\* its gr.Audio(source="microphone") has no value.
microphone ==
  [prompt |-> DefaultPrompt, language |-> "en",
   speaker_wav |-> None, agree |-> FALSE]

\* gr.TabbedInterface([audio_upload, microphone], ["Audio file", "Microphone"])
Tabs == {"Audio file", "Microphone"}

Form(tab) == IF tab = "Audio file" THEN audio_upload ELSE microphone

Choices(tab) == IF tab = "Audio file" THEN AudioUploadChoices ELSE MicrophoneChoices

Range(s) == { s[i] : i \in DOMAIN s }

\* Only audio_upload is given examples=examples.
HasExamples(tab) == tab = "Audio file"

(* ----------------------------- inputs ---------------------------------- *)

Workers == 1 .. NumWorkers

\* The prompt of n characters "aaa..." (code point 97).
PromptOfLen(n) == [i \in 1 .. n |-> 97]

Prompts == { PromptOfLen(n) : n \in 0 .. MaxPromptLen }

\* Language and reference audio of the requests the workers are handed: those
\* of the first two example rows.
Voices ==
  { [language |-> examples[i].language, speaker_wav |-> examples[i].speaker_wav] :
      i \in 1 .. 2 }

\* The optional trailing argument of predict: omitted, or agree given.
AgreeArgs == { <<>>, <<TRUE>>, <<FALSE>> }

(* ------------------------------ state ---------------------------------- *)

VARIABLES
  pc,          \* pc[p]: where invocation p of predict stands
  req,         \* req[p]: predict's parameters as bound for invocation p
  ttsCalls,    \* ttsCalls[p]: the tts.tts_to_file calls invocation p has made
  out,         \* out[p]: the value predict returned: <<>> or <<waveform, path>>
  err,         \* err[p]: the exception that left predict, or "none"
  warned,      \* warned[p]: gr.Warning was emitted
  output_wav   \* the content of the file output.wav

vars == << pc, req, ttsCalls, out, err, warned, output_wav >>

\* No audio: output.wav before the first synthesis.
NoAudio == [exists |-> FALSE, text |-> <<>>, language |-> "", speaker_wav |-> None]

NoReq ==
  [prompt |-> <<>>, language |-> "", speaker_wav |-> None, agree |-> FALSE,
   agreeArg |-> <<>>]

Init ==
  /\ pc = [p \in Workers |-> "idle"]
  /\ req = [p \in Workers |-> NoReq]
  /\ ttsCalls = [p \in Workers |-> <<>>]
  /\ out = [p \in Workers |-> <<>>]
  /\ err = [p \in Workers |-> "none"]
  /\ warned = [p \in Workers |-> FALSE]
  /\ output_wav = NoAudio

(* ------------------------- predict, step by step ----------------------- *)

\* agree defaulting to True
BindAgreeDefaultTrue(agreeArg) == IF Len(agreeArg) = 0 THEN TRUE ELSE agreeArg[1]

\* def predict(prompt, language, speaker_wav, agree=False): the value agree is
\* bound to when the caller passed agreeArg (<<>> when omitted).
BindAgree(agreeArg) == IF Len(agreeArg) = 0 THEN FALSE ELSE agreeArg[1]

\* len(prompt) < 1
TooShortBelowOne(prompt) == Len(prompt) < MinPromptLen - 1

\* len(prompt) <= 2
TooShortUpToTwo(prompt) == Len(prompt) <= MinPromptLen

\* len(prompt) < 2
TooShort(prompt) == Len(prompt) < MinPromptLen

\* The length check placed before the consent check
GateLengthFirst(agree, prompt) ==
  IF TooShort(prompt)
    THEN "raise"
    ELSE IF agree THEN "synthesize" ELSE "warn"

\* The branch predict takes:
\*   if agree:
\*       if len(prompt) < 2: raise gr.Error(...)
\*       tts.tts_to_file(...) ...
\*   else:
\*       gr.Warning(...); return ()
Gate(agree, prompt) ==
  IF agree
    THEN IF TooShort(prompt) THEN "raise" ELSE "synthesize"
    ELSE "warn"

\* speaker_wav and language passed in each other's place
TtsArgsSwapped(r) ==
  [text |-> r.prompt, file_path |-> OutputPath, speaker_wav |-> r.language,
   language |-> r.speaker_wav, status |-> "running"]

\* The keyword arguments of tts.tts_to_file(text=prompt, file_path="output.wav",
\* speaker_wav=speaker_wav, language=language), with the call's progress.
TtsArgs(r) ==
  [text |-> r.prompt, file_path |-> OutputPath, speaker_wav |-> r.speaker_wav,
   language |-> r.language, status |-> "running"]

\* What a completed tts_to_file call leaves in the file it was told to write.
Synthesized(c) ==
  [exists |-> TRUE, text |-> c.text, language |-> c.language,
   speaker_wav |-> c.speaker_wav]

\* The waveform built from the reference clip's conventional name instead
MakeWaveformOtherFile(path, content) == [audio |-> "audio.wav", frames |-> content]

\* gr.make_waveform(audio=path): a video made of the file's content as read now.
MakeWaveform(path, content) == [audio |-> path, frames |-> content]

\* A different file name returned as the audio
ReturnValueOtherPath(content) == << MakeWaveform(OutputPath, content), "out.wav" >>

\* return (gr.make_waveform(audio="output.wav"), "output.wav")
ReturnValue(content) == << MakeWaveform(OutputPath, content), OutputPath >>

\* predict is entered by a free worker with its arguments and runs up to its
\* first external call: the gates read the arguments only.
Call(p, prompt, language, speaker_wav, agreeArg) ==
  LET agree == BindAgree(agreeArg)
      branch == Gate(agree, prompt)
  IN  /\ pc[p] = "idle"
      /\ req' = [req EXCEPT ![p] =
           [prompt |-> prompt, language |-> language, speaker_wav |-> speaker_wav,
            agree |-> agree, agreeArg |-> agreeArg]]
      /\ pc' = [pc EXCEPT ![p] =
           CASE branch = "raise" -> "raised"
             [] branch = "warn" -> "returned"
             [] OTHER -> "synth"]
      /\ err' = [err EXCEPT ![p] = IF branch = "raise" THEN "gr.Error" ELSE "none"]
      /\ warned' = [warned EXCEPT ![p] = (branch = "warn")]
      /\ out' = [out EXCEPT ![p] = <<>>]
      /\ ttsCalls' = [ttsCalls EXCEPT ![p] = <<>>]
      /\ UNCHANGED output_wav

\* tts.tts_to_file(...) is called; predict blocks in it.
TtsToFileCall(p) ==
  /\ pc[p] = "synth"
  /\ ttsCalls' = [ttsCalls EXCEPT ![p] = Append(@, TtsArgs(req[p]))]
  /\ pc' = [pc EXCEPT ![p] = "in_tts"]
  /\ UNCHANGED << req, out, err, warned, output_wav >>

\* tts.tts_to_file(...) returns, having written the file.
TtsToFileReturn(p) ==
  /\ pc[p] = "in_tts"
  /\ output_wav' = Synthesized(ttsCalls[p][Len(ttsCalls[p])])
  /\ ttsCalls' = [ttsCalls EXCEPT ![p][Len(ttsCalls[p])].status = "returned"]
  /\ pc' = [pc EXCEPT ![p] = "wave"]
  /\ UNCHANGED << req, out, err, warned >>

\* The synthesis failure caught and turned into the warning and an empty return
TtsToFileRaiseHandled(p) ==
  /\ pc[p] = "in_tts"
  /\ ttsCalls' = [ttsCalls EXCEPT ![p][Len(ttsCalls[p])].status = "raised"]
  /\ pc' = [pc EXCEPT ![p] = "returned"]
  /\ warned' = [warned EXCEPT ![p] = TRUE]
  /\ UNCHANGED << req, out, err, output_wav >>

\* tts.tts_to_file(...) raises; predict has no handler around it.
TtsToFileRaise(p) ==
  /\ pc[p] = "in_tts"
  /\ ttsCalls' = [ttsCalls EXCEPT ![p][Len(ttsCalls[p])].status = "raised"]
  /\ pc' = [pc EXCEPT ![p] = "raised"]
  /\ err' = [err EXCEPT ![p] = "tts_to_file"]
  /\ UNCHANGED << req, out, warned, output_wav >>

\* return (gr.make_waveform(audio="output.wav"), "output.wav")
MakeWaveformReturn(p) ==
  /\ pc[p] = "wave"
  /\ out' = [out EXCEPT ![p] = ReturnValue(output_wav)]
  /\ pc' = [pc EXCEPT ![p] = "returned"]
  /\ UNCHANGED << req, ttsCalls, err, warned, output_wav >>

\* gr.make_waveform(...) raises (it shells out to ffmpeg); no handler either.
MakeWaveformRaise(p) ==
  /\ pc[p] = "wave"
  /\ pc' = [pc EXCEPT ![p] = "raised"]
  /\ err' = [err EXCEPT ![p] = "make_waveform"]
  /\ UNCHANGED << req, ttsCalls, out, warned, output_wav >>

\* The framework takes predict's result or exception; the worker is free again.
Deliver(p) ==
  /\ pc[p] \in {"returned", "raised"}
  /\ pc' = [pc EXCEPT ![p] = "idle"]
  /\ req' = [req EXCEPT ![p] = NoReq]
  /\ ttsCalls' = [ttsCalls EXCEPT ![p] = <<>>]
  /\ out' = [out EXCEPT ![p] = <<>>]
  /\ err' = [err EXCEPT ![p] = "none"]
  /\ warned' = [warned EXCEPT ![p] = FALSE]
  /\ UNCHANGED output_wav

\* predict is called with arbitrary arguments.
Predict(p) ==
  /\ p \in Workers
  /\ \E prompt \in Prompts, voice \in Voices, agreeArg \in AgreeArgs :
       Call(p, prompt, voice.language, voice.speaker_wav, agreeArg)

Next ==
  \/ \E p \in Workers : Predict(p)
  \/ \E p \in Workers : TtsToFileCall(p)
  \/ \E p \in Workers : TtsToFileReturn(p)
  \/ \E p \in Workers : TtsToFileRaise(p)
  \/ \E p \in Workers : MakeWaveformReturn(p)
  \/ \E p \in Workers : MakeWaveformRaise(p)
  \/ \E p \in Workers : Deliver(p)

Spec == Init /\ [][Next]_vars

(* --------------------------- the web forms ----------------------------- *)

\* What a user can type into the Text Prompt box.
TypedPrompts == Prompts \cup { DefaultPrompt }

\* What the Reference Audio input can hold: the form's initial value, or a clip
\* the user uploaded or recorded.
Clips(tab) == { Form(tab).speaker_wav, "examples/male.wav" }

\* Submit pressed on a form nobody touched.
SubmitDefaults(p, tab) ==
  /\ tab \in Tabs
  /\ Call(p, Form(tab).prompt, Form(tab).language, Form(tab).speaker_wav,
          << Form(tab).agree >>)

\* An example row loaded into the audio_upload form and submitted.
SubmitExample(p, i) ==
  /\ HasExamples("Audio file")
  /\ Call(p, examples[i].prompt, examples[i].language, examples[i].speaker_wav,
          << examples[i].agree >>)

\* Submit pressed after the user edited the form.
SubmitEdited(p, tab) ==
  /\ tab \in Tabs
  /\ \E prompt \in TypedPrompts, language \in Range(Choices(tab)),
        speaker_wav \in Clips(tab), agree \in BOOLEAN :
       Call(p, prompt, language, speaker_wav, << agree >>)

\* The forms served through the queue, one event at a time.
NextUI ==
  \/ \E tab \in Tabs : SubmitDefaults(1, tab)
  \/ \E i \in DOMAIN examples : SubmitExample(1, i)
  \/ \E tab \in Tabs : SubmitEdited(1, tab)
  \/ TtsToFileCall(1)
  \/ TtsToFileReturn(1)
  \/ TtsToFileRaise(1)
  \/ MakeWaveformReturn(1)
  \/ MakeWaveformRaise(1)
  \/ Deliver(1)

SpecUI == Init /\ [][NextUI]_vars

(* ------------------------------ claims --------------------------------- *)

Finished(p) == pc[p] \in {"returned", "raised"}

\* The caller passed agree = true.
AgreeGiven(p) == req[p].agreeArg = << TRUE >>

\* The caller passed agree = false, or left agree out.
AgreeDenied(p) == pc[p] # "idle" /\ req[p].agreeArg \in { <<>>, << FALSE >> }

PromptLen(p) == Len(req[p].prompt)

MadeCall(p) == Len(ttsCalls[p]) > 0

\* The invocation's synthesis call completed, so it wrote output.wav.
Wrote(p) == MadeCall(p) /\ ttsCalls[p][1].status = "returned"

SynthesisFailed(p) == MadeCall(p) /\ ttsCalls[p][1].status = "raised"

ReturnedPair(p) == pc[p] = "returned" /\ Len(out[p]) = 2

ReturnedEmpty(p) == pc[p] = "returned" /\ Len(out[p]) = 0

\* C1: an invocation reaches the synthesis call (and so writes output.wav) only
\* if its request has agree = true and a prompt of at least 2 characters.
C1_SynthesisOnlyPastBothGates ==
  \A p \in Workers :
    (pc[p] \in {"synth", "in_tts", "wave"} \/ MadeCall(p))
      => AgreeGiven(p) /\ PromptLen(p) >= 2

C1_Witness ==
  \E p \in Workers : Wrote(p) /\ AgreeGiven(p) /\ PromptLen(p) = 2

\* C2: with agree = false or omitted, whatever the other arguments, predict
\* returns the empty tuple, emits the warning, raises nothing and makes no
\* synthesis call.
C2_NoConsentWarnsAndReturnsEmpty ==
  \A p \in Workers :
    AgreeDenied(p)
      => /\ ReturnedEmpty(p)
         /\ warned[p]
         /\ err[p] = "none"
         /\ ~MadeCall(p)

C2_Witness ==
  /\ \E p \in Workers : req[p].agreeArg = <<>> /\ ReturnedEmpty(p) /\ warned[p]
  /\ \E p \in Workers :
       req[p].agreeArg = << FALSE >> /\ PromptLen(p) = 2 /\ ReturnedEmpty(p)

\* An invocation with agree = true and a prompt of 0 or 1 characters has raised
\* gr.Error, made no synthesis call and returned nothing; one with a prompt of
\* exactly 2 characters has not raised gr.Error.
ShortPromptRaised ==
  \A p \in Workers :
    /\ (AgreeGiven(p) /\ PromptLen(p) < 2)
         => /\ pc[p] = "raised"
            /\ err[p] = "gr.Error"
            /\ ~MadeCall(p)
            /\ Len(out[p]) = 0
            /\ ~warned[p]
    /\ (AgreeGiven(p) /\ PromptLen(p) = 2) => err[p] # "gr.Error"

\* The step in which an invocation raises gr.Error leaves output.wav as it was.
RaisingLeavesFile ==
  \A p \in Workers :
    (err[p] # "gr.Error" /\ err'[p] = "gr.Error") => output_wav' = output_wav

\* C3: with agree = true and a prompt of 0 or 1 characters predict raises
\* gr.Error before any synthesis call, returning nothing and leaving
\* output.wav as it was; a prompt of exactly 2 characters is not rejected.
C3_ShortPromptRaises == []ShortPromptRaised /\ [][RaisingLeavesFile]_vars

C3_Witness ==
  /\ \E p \in Workers : AgreeGiven(p) /\ PromptLen(p) = 1 /\ err[p] = "gr.Error"
  /\ \E p \in Workers : AgreeGiven(p) /\ PromptLen(p) = 2 /\ MadeCall(p)

C5_ConsentGateFirst ==
  \A p \in Workers :
    (AgreeDenied(p) /\ PromptLen(p) < 2)
      => warned[p] /\ ReturnedEmpty(p) /\ err[p] # "gr.Error"

C5_Witness ==
  \E p \in Workers :
    req[p].agreeArg = << FALSE >> /\ PromptLen(p) = 0 /\ warned[p] /\ ReturnedEmpty(p)

\* C6: on a successful request the waveform is built from output.wav, the path
\* the request's own synthesis call wrote, after that call returned, and the
\* audio output is that same path.
C6_WaveformAndAudioFromOnePath ==
  \A p \in Workers :
    ReturnedPair(p)
      => /\ Wrote(p)
         /\ out[p][1].audio = ttsCalls[p][1].file_path
         /\ out[p][2] = out[p][1].audio
         /\ out[p][1].frames.exists

C6_Witness ==
  \E p \in Workers : ReturnedPair(p) /\ out[p][1].audio = "output.wav"

\* C7: a failed synthesis call leaves predict as that failure: no pair is
\* returned, no waveform is built, and neither the warning nor the
\* too-short-prompt error takes its place.
C7_SynthesisFailurePropagates ==
  \A p \in Workers :
    SynthesisFailed(p)
      => /\ pc[p] = "raised"
         /\ err[p] = "tts_to_file"
         /\ Len(out[p]) = 0
         /\ ~warned[p]

C7_Witness ==
  \E p \in Workers : SynthesisFailed(p) /\ pc[p] = "raised"

\* C8: an invocation makes at most one synthesis call, has left it before it
\* returns, and passes its prompt, language and speaker_wav unchanged as text,
\* language and speaker_wav, with the file path output.wav.
C8_OneBlockingCallWithTheRequestsArguments ==
  \A p \in Workers :
    /\ Len(ttsCalls[p]) <= 1
    /\ MadeCall(p)
         => /\ ttsCalls[p][1].text = req[p].prompt
            /\ ttsCalls[p][1].language = req[p].language
            /\ ttsCalls[p][1].speaker_wav = req[p].speaker_wav
            /\ ttsCalls[p][1].file_path = "output.wav"
            /\ (ttsCalls[p][1].status = "running") = (pc[p] = "in_tts")
    /\ ReturnedPair(p) => Wrote(p)

C8_Witness ==
  \E p \in Workers :
    ReturnedPair(p) /\ Wrote(p) /\ ttsCalls[p][1].language = "fr"

\* C9: whatever the interleaving, the waveform an invocation returns is the
\* audio synthesized from its own prompt, language and speaker_wav.
C9_EachReturnsItsOwnAudio ==
  \A p \in Workers :
    ReturnedPair(p) => out[p][1].frames = Synthesized(ttsCalls[p][1])

\* The request is the i-th example row.
IsExample(r, i) ==
  /\ r.prompt = examples[i].prompt
  /\ r.language = examples[i].language
  /\ r.speaker_wav = examples[i].speaker_wav
  /\ r.agreeArg = << examples[i].agree >>

\* The request is the untouched form of a tab.
IsDefaults(r, tab) ==
  /\ r.prompt = Form(tab).prompt
  /\ r.language = Form(tab).language
  /\ r.speaker_wav = Form(tab).speaker_wav
  /\ r.agreeArg = << Form(tab).agree >>

\* C10: every example row has agree = true, a prompt of at least 2 characters
\* and a language among the 13 dropdown choices, and submitting it passes both
\* gates; both forms start with Agree unchecked, and submitting an untouched
\* form makes no synthesis call.
C10_ExamplesPassDefaultsDoNot ==
  /\ \A i \in DOMAIN examples :
       /\ examples[i].agree = TRUE
       /\ Len(examples[i].prompt) >= 2
       /\ examples[i].language \in Range(AudioUploadChoices)
  /\ \A tab \in Tabs :
       /\ Cardinality(Range(Choices(tab))) = 13
       /\ Form(tab).agree = FALSE
  /\ \A p \in Workers :
       /\ \A i \in DOMAIN examples :
            (pc[p] # "idle" /\ IsExample(req[p], i))
              => ~warned[p] /\ err[p] # "gr.Error"
       /\ \A tab \in Tabs :
            (pc[p] # "idle" /\ IsDefaults(req[p], tab))
              => ~MadeCall(p) /\ ReturnedEmpty(p) /\ warned[p]

\* An untouched microphone form was submitted and warned, right after an
\* example row was synthesized.
C10_Witness ==
  /\ \E i \in DOMAIN examples :
       output_wav.exists /\ output_wav.text = examples[i].prompt
  /\ \E p \in Workers :
       IsDefaults(req[p], "Microphone") /\ ReturnedEmpty(p) /\ warned[p]

====
